---------------------------- MODULE Spec2Model ----------------------------
(***************************************************************************)
(* Page Assets Downloader: the page-context scanner (content.js), the      *)
(* popup controller (popup.js) and the background download orchestrator    *)
(* (background.js).                                                        *)
(*                                                                         *)
(* Text is modelled as a sequence of one-character strings; the scheme of  *)
(* a URL ("https:") and the authority marker ("//") are single tokens.     *)
(* A JavaScript object is a record that has exactly the properties the     *)
(* object literal has, so "content" \in DOMAIN a tells whether a.content   *)
(* is defined.                                                             *)
(***************************************************************************)
EXTENDS Integers, Sequences, FiniteSets, TLC

VARIABLES
    location,      \* content.js: window.location.href of the page
    elements,      \* content.js: the <script>/<iframe> elements, document order
    scanRequest,   \* content.js: the scanAssets request the listener last received
    scanPending,   \* content.js: the scan promise whose callback has not run yet
    scanReplies,   \* content.js: what sendResponse delivered for that request
    host,          \* the browser the extension runs in
    jsBeautifyLoaded,   \* background.js: let jsBeautifyLoaded
    engineLoading, \* background.js: the dynamic load of js-beautify is pending
    batches,       \* background.js: the downloadFiles calls, one per request
    blobs,         \* the blob URLs created so far, by id
    downloads,     \* the host's download items, in the order they were started
    popup,         \* popup.js: the download button and the reply it waits for
    beautifyRequest,   \* background.js: the beautifyJs request last received
    beautifyCall,      \* background.js: the call of jsBeautify.beautify made for it
    beautifyReplies    \* background.js: what sendResponse delivered for it

scanVars == <<location, elements, scanRequest, scanPending, scanReplies>>
beautifyVars == <<beautifyRequest, beautifyCall, beautifyReplies>>
backgroundVars == <<host, jsBeautifyLoaded, engineLoading,
                    batches, blobs, downloads, popup, beautifyVars>>
vars == <<scanVars, backgroundVars>>

-----------------------------------------------------------------------------
(* Bounds of the model *)

\* The browsers the code names: Chrome runs the background script as a service
\* worker (importScripts exists, URL.createObjectURL does not), Firefox as a
\* page (no importScripts, blob URLs work)
ChromeHost == [importScripts |-> TRUE, blobUrls |-> FALSE]
FirefoxHost == [importScripts |-> FALSE, blobUrls |-> TRUE]

MaxElems == 2        \* script/iframe elements on a page
MaxSegLen == 2       \* characters of the free part of a URL's last segment
MaxAssets == 2       \* descriptors in all the downloadAssets requests together
MaxBatches == 2      \* downloadAssets requests the background context receives
MaxCodeLen == 3      \* characters of a script text handed to the formatter

-----------------------------------------------------------------------------
(* Text helpers *)

Letters == {"a", "b", "c", "d", "e", "f", "h", "i", "j", "k", "l", "m", "n",
            "o", "p", "r", "s", "t", "u", "w", "x"}
Digits == {"0", "1", "2", "3", "4", "5", "6", "7", "8", "9"}
WordChars == Letters \cup Digits \cup {"_"}        \* the regex class \w
SpaceChars == {" ", "\n"}                          \* the regex class \s

Pad(n) == [i \in 1..n |-> "a"]

StartsWith(s, p) == Len(s) >= Len(p) /\ SubSeq(s, 1, Len(p)) = p
EndsWith(s, p) == Len(s) >= Len(p) /\ SubSeq(s, Len(s) - Len(p) + 1, Len(s)) = p

\* String.prototype.trim
Trim(s) ==
    LET inner == {i \in DOMAIN s : s[i] \notin SpaceChars}
    IN IF inner = {} THEN <<>>
       ELSE SubSeq(s, CHOOSE i \in inner : \A j \in inner : i <= j,
                      CHOOSE i \in inner : \A j \in inner : j <= i)

\* s.replace(/[class]+/g, r): every maximal run of characters of cls becomes r
ReplaceRuns(s, cls, r) ==
    LET f[i \in 0..Len(s)] ==
            IF i = 0 THEN <<>>
            ELSE IF s[i] \notin cls THEN Append(f[i - 1], s[i])
            ELSE IF i > 1 /\ s[i - 1] \in cls THEN f[i - 1]
            ELSE Append(f[i - 1], r)
    IN IF \A i \in DOMAIN s : s[i] \notin cls THEN s ELSE f[Len(s)]

\* String(n) for n >= 0: the decimal digits
RECURSIVE Decimal(_)
Decimal(n) ==
    LET d == <<"0", "1", "2", "3", "4", "5", "6", "7", "8", "9">>[(n % 10) + 1]
    IN IF n < 10 THEN <<d>> ELSE Append(Decimal(n \div 10), d)

DotJs == <<".", "j", "s">>
DotHtml == <<".", "h", "t", "m", "l">>
UnknownFile == <<"u", "n", "k", "n", "o", "w", "n", "_", "f", "i", "l", "e">>
IndexSuffix == <<"_", "i", "n", "d", "e", "x">>
InlineScriptPrefix ==
    <<"i", "n", "l", "i", "n", "e", "_", "s", "c", "r", "i", "p", "t", "_">>

-----------------------------------------------------------------------------
(* content.js: utils *)

FilenameLimit == 200

\* utils.sanitizeFilename
sanitizeFilename(filename) ==
    LET a == [i \in DOMAIN filename |->
                 IF filename[i] \in WordChars \cup SpaceChars \cup {".", "-"}
                 THEN filename[i] ELSE "_"]
        b == ReplaceRuns(a, SpaceChars, "_")
        c == ReplaceRuns(b, {"_"}, "_")
    IN SubSeq(c, 1, IF Len(c) < FilenameLimit THEN Len(c) ELSE FilenameLimit)

\* new URL(url): the parts of an absolute http(s) URL, and whether it parses
FirstOf(s, cls) ==
    LET hits == {i \in DOMAIN s : s[i] \in cls}
    IN IF hits = {} THEN Len(s) + 1 ELSE CHOOSE i \in hits : \A j \in hits : i <= j

LastOf(s, cls) ==
    LET hits == {i \in DOMAIN s : s[i] \in cls}
    IN IF hits = {} THEN 0 ELSE CHOOSE i \in hits : \A j \in hits : j <= i

HostChars == Letters \cup Digits \cup {".", "-"}

ParseUrl(url) ==
    LET rest == SubSeq(url, 3, Len(url))
        authEnd == FirstOf(rest, {"/", "?", "#"})
        authority == SubSeq(rest, 1, authEnd - 1)
        hostname == SubSeq(authority, 1, FirstOf(authority, {":"}) - 1)
        tail == SubSeq(rest, authEnd, Len(rest))
        pathEnd == FirstOf(tail, {"?", "#"})
    IN [valid |-> /\ Len(url) >= 3
                  /\ url[1] \in {"http:", "https:"}
                  /\ url[2] = "//"
                  /\ hostname # <<>>
                  /\ \A i \in DOMAIN hostname : hostname[i] \in HostChars,
        hostname |-> hostname,
        pathname |-> IF tail # <<>> /\ tail[1] = "/"
                     THEN SubSeq(tail, 1, pathEnd - 1) ELSE <<"/">>]

\* utils.getFilenameFromUrl
getFilenameFromUrl(url) ==
    LET urlObj == ParseUrl(url)
        filename == SubSeq(urlObj.pathname, LastOf(urlObj.pathname, {"/"}) + 1,
                           Len(urlObj.pathname))
    IN IF ~urlObj.valid THEN UnknownFile
       ELSE IF filename = <<>> THEN urlObj.hostname \o IndexSuffix
       ELSE filename


-----------------------------------------------------------------------------
(* content.js: scanner *)

StartsWithHttp(s) == s # <<>> /\ s[1] \in {"http:", "https:"}
StartsWithSlashes(s) == s # <<>> /\ s[1] = "//"

\* document.querySelectorAll(selector), in document order
querySelectorAll(elems, tag, withSrc) ==
    SelectSeq(elems, LAMBDA e : e.tag = tag /\ e.hasSrc = withSrc)

\* scanner.getExternalScripts
getExternalScripts(elems) ==
    LET nodes == querySelectorAll(elems, "script", TRUE)
        scripts[i \in 0..Len(nodes)] ==
            IF i = 0 THEN <<>>
            ELSE LET src == nodes[i].src
                     filename == getFilenameFromUrl(src)
                 IN IF src # <<>> /\ (StartsWithHttp(src) \/ StartsWithSlashes(src))
                    THEN Append(scripts[i - 1],
                                [url |-> src,
                                 filename |-> IF EndsWith(filename, DotJs)
                                              THEN filename ELSE filename \o DotJs,
                                 type |-> "external-js"])
                    ELSE scripts[i - 1]
    IN scripts[Len(nodes)]

\* scanner.getInlineScripts
getInlineScripts(elems) ==
    LET nodes == querySelectorAll(elems, "script", FALSE)
        scripts[i \in 0..Len(nodes)] ==
            IF i = 0 THEN <<>>
            ELSE LET index == i - 1
                     textContent == nodes[i].text
                 IN IF textContent # <<>> /\ Trim(textContent) # <<>>
                    THEN Append(scripts[i - 1],
                                [content |-> textContent,
                                 filename |-> InlineScriptPrefix
                                              \o Decimal(index + 1) \o DotJs,
                                 type |-> "inline-js"])
                    ELSE scripts[i - 1]
    IN scripts[Len(nodes)]

\* document.documentElement.outerHTML: the serialized markup, never empty
outerHTML(elems) ==
    <<"<", "h", "t", "m", "l", ">">> \o Decimal(Len(elems))

\* Mutant of getCurrentPageHtml: the page is described by reference only
getCurrentPageHtml_referenceOnly(href, elems) ==
    [filename |-> sanitizeFilename(getFilenameFromUrl(href) \o DotHtml),
     type |-> "html",
     url |-> href]

\* scanner.getCurrentPageHtml
getCurrentPageHtml(href, elems) ==
    LET url == href
        filename == getFilenameFromUrl(url) \o DotHtml
    IN [content |-> outerHTML(elems),
        filename |-> sanitizeFilename(filename),
        type |-> "html",
        url |-> url]

\* scanner.getIframeHtml
getIframeHtml(elems) ==
    LET nodes == querySelectorAll(elems, "iframe", TRUE)
        iframes[i \in 0..Len(nodes)] ==
            IF i = 0 THEN <<>>
            ELSE LET src == nodes[i].src
                     filename == getFilenameFromUrl(src)
                 IN IF src # <<>> /\ (StartsWithHttp(src) \/ StartsWithSlashes(src))
                    THEN Append(iframes[i - 1],
                                [url |-> src,
                                 filename |-> IF EndsWith(filename, DotHtml)
                                              THEN filename ELSE filename \o DotHtml,
                                 type |-> "iframe-html"])
                    ELSE iframes[i - 1]
    IN iframes[Len(nodes)]

\* Mutant of scanAllAssets: the inline scripts are added before the external ones
scanAllAssets_inlineFirst(href, elems, options) ==
    <<getCurrentPageHtml(href, elems)>>
    \o (IF options.includeInline THEN getInlineScripts(elems) ELSE <<>>)
    \o getExternalScripts(elems)
    \o getIframeHtml(elems)

\* Mutant of scanAllAssets: the inline scripts are added whatever the options
scanAllAssets_alwaysInline(href, elems, options) ==
    <<getCurrentPageHtml(href, elems)>>
    \o getExternalScripts(elems)
    \o getInlineScripts(elems)
    \o getIframeHtml(elems)

\* scanner.scanAllAssets; options is the record of the options object
scanAllAssets(href, elems, options) ==
    <<getCurrentPageHtml(href, elems)>>
    \o getExternalScripts(elems)
    \o (IF options.includeInline THEN getInlineScripts(elems) ELSE <<>>)
    \o getIframeHtml(elems)

-----------------------------------------------------------------------------
(* The pages the scanner is run on *)

Https == <<"https:", "//">>
Host == <<"x", ".", "t">>

SegAlphabet == {"a", "@"}
Bodies == UNION {[1..n -> SegAlphabet] : n \in 0..MaxSegLen}
\* short segments, and long ones around the length where ".html" stops fitting
LongSegs == {Pad(FilenameLimit - Len(DotHtml) - 1 + n) : n \in 0..MaxSegLen}
LastSegs == Bodies \cup LongSegs

\* window.location.href of an http(s) page: always parses
LocPool == {Https \o Host \o <<"/">> \o seg : seg \in LastSegs}

\* script.src: the resolved URL, or the raw attribute when it does not parse
SrcPool ==
    { Https \o Host \o <<"/", "a", ".", "j", "s">>,
      Https \o Host \o <<"/", "d", "/", "l", "@", "1">>,
      Https \o Host \o <<"/", "?", "w">>,
      <<"//", "[">>,
      <<"data:", "a">> }

\* iframe.src
FramePool ==
    { <<"http:", "//", "x", ":", "8", "/", "f", ".", "h", "t", "m", "l">>,
      <<"about:", "b">> }

\* script.textContent of a script without src
TextPool == { <<" ", "\n">>, <<"a", ";", "b">> }

ElemPool ==
    {[tag |-> "script", hasSrc |-> TRUE, src |-> u, text |-> <<>>] : u \in SrcPool}
    \cup {[tag |-> "script", hasSrc |-> FALSE, src |-> <<>>, text |-> t] : t \in TextPool}
    \cup {[tag |-> "iframe", hasSrc |-> TRUE, src |-> u, text |-> <<>>] : u \in FramePool}

Pages == UNION {[1..n -> ElemPool] : n \in 0..MaxElems}

\* request.options of a scanAssets message
ScanOptionValues ==
    { [js |-> "undefined"], [js |-> "null"],
      [js |-> "object", includeInline |-> TRUE],
      [js |-> "object", includeInline |-> FALSE] }

-----------------------------------------------------------------------------
(* content.js: the message listener *)

\* scanAllAssets(options = {}) as called by the listener: the promise it returns
scanAllAssetsPromise(href, elems, options) ==
    IF options.js = "null"
    THEN [state |-> "rejected", error |-> "TypeError"]
    ELSE [state |-> "fulfilled",
          assets |-> scanAllAssets(href, elems,
                        [includeInline |-> options.js = "object"
                                           /\ options.includeInline])]

ScanInit ==
    /\ location \in LocPool
    /\ elements \in Pages
    /\ scanRequest = <<>>
    /\ scanPending = <<>>
    /\ scanReplies = <<>>
    /\ host = ChromeHost
    /\ jsBeautifyLoaded = TRUE
    /\ engineLoading = FALSE
    /\ batches = <<>>
    /\ blobs = <<>>
    /\ downloads = <<>>
    /\ popup = [disabled |-> FALSE, waitingFor |-> 0]
    /\ beautifyRequest = <<>>
    /\ beautifyCall = <<>>
    /\ beautifyReplies = <<>>

\* listener, request.action === 'scanAssets': starts the scan, keeps the channel open
onMessage_scanAssets(options) ==
    /\ scanPending = <<>>
    /\ scanRequest' = <<[action |-> "scanAssets", options |-> options]>>
    /\ scanPending' = <<scanAllAssetsPromise(location, elements, options)>>
    /\ scanReplies' = <<>>
    /\ UNCHANGED <<location, elements, backgroundVars>>

\* .then(assets => sendResponse({ success: true, assets }))
scanAssets_then ==
    /\ scanPending # <<>>
    /\ scanPending[1].state = "fulfilled"
    /\ scanReplies' = Append(scanReplies,
                             [success |-> TRUE, assets |-> scanPending[1].assets])
    /\ scanPending' = <<>>
    /\ UNCHANGED <<location, elements, scanRequest, backgroundVars>>

\* .catch(error => sendResponse({ success: false, error: error.message }))
scanAssets_catch ==
    /\ scanPending # <<>>
    /\ scanPending[1].state = "rejected"
    /\ scanReplies' = Append(scanReplies,
                             [success |-> FALSE, error |-> scanPending[1].error])
    /\ scanPending' = <<>>
    /\ UNCHANGED <<location, elements, scanRequest, backgroundVars>>

ScanNext ==
    \/ \E options \in ScanOptionValues : onMessage_scanAssets(options)
    \/ scanAssets_then
    \/ scanAssets_catch

ScanSpec == ScanInit /\ [][ScanNext]_vars

-----------------------------------------------------------------------------
(* Scanner claims, checked under ScanSpec *)

\* The descriptors of the scan response delivered for the current request
ScannedAssets ==
    IF scanReplies # <<>> /\ scanReplies[1].success THEN scanReplies[1].assets ELSE <<>>

HasContent(a) == "content" \in DOMAIN a /\ a.content # <<>>
HasUrl(a) == "url" \in DOMAIN a /\ a.url # <<>>

NameChars == WordChars \cup {".", "-"}

\* C5: every descriptor a scan emits, of every kind, has a suggestedName that
\* is non-empty, at most 200 characters long and made only of word characters,
\* '.' and '-' (it matches ^[\w.-]{1,200}$).
C5_SuggestedNameIsSafe ==
    \A i \in DOMAIN ScannedAssets :
        LET name == ScannedAssets[i].filename
        IN /\ Len(name) >= 1
           /\ Len(name) <= FilenameLimit
           /\ \A k \in DOMAIN name : name[k] \in NameChars

\* C6: every descriptor a scan emits has a suggestedName that ends with the
\* extension of its kind: '.js' for external-script and inline-script, '.html'
\* for page-html and frame-html, also when the 200-character cut applies.
C6_ExtensionMatchesKind ==
    \A i \in DOMAIN ScannedAssets :
        LET a == ScannedAssets[i]
        IN IF a.type \in {"external-js", "inline-js"}
           THEN EndsWith(a.filename, DotJs)
           ELSE EndsWith(a.filename, DotHtml)

\* C7 as stated: every descriptor a scan emits carries exactly one origin,
\* literal content or a reference URL, never both and never neither.
C7_ExactlyOneOrigin ==
    \A i \in DOMAIN ScannedAssets :
        HasContent(ScannedAssets[i]) # HasUrl(ScannedAssets[i])

\* C7 as amended: every descriptor a scan emits carries at least one origin;
\* external-script and frame-html descriptors carry only a reference URL,
\* inline-script descriptors carry only literal content, and the page-html
\* descriptor carries its literal content together with the page URL.
C7_OriginByKind ==
    \A i \in DOMAIN ScannedAssets :
        LET a == ScannedAssets[i]
        IN CASE a.type \in {"external-js", "iframe-html"} ->
                    HasUrl(a) /\ "content" \notin DOMAIN a
             [] a.type = "inline-js" ->
                    HasContent(a) /\ "url" \notin DOMAIN a
             [] a.type = "html" ->
                    HasContent(a) /\ HasUrl(a) /\ a.url = location
             [] OTHER -> FALSE

C7_Witness ==
    /\ Len(ScannedAssets) = 3
    /\ ScannedAssets[1].type = "html"
    /\ ScannedAssets[2].type = "external-js"
    /\ ScannedAssets[3].type = "inline-js"

\* The position a kind takes in a scan result
KindRank(type) ==
    CASE type = "html" -> 0
      [] type = "external-js" -> 1
      [] type = "inline-js" -> 2
      [] type = "iframe-html" -> 3

\* The elements a scan reports as kind `type`, in document order
Reported(type) ==
    SelectSeq(elements, LAMBDA e :
        CASE type = "external-js" ->
                 e.tag = "script" /\ e.hasSrc
                 /\ (StartsWithHttp(e.src) \/ StartsWithSlashes(e.src))
          [] type = "iframe-html" ->
                 e.tag = "iframe" /\ e.hasSrc
                 /\ (StartsWithHttp(e.src) \/ StartsWithSlashes(e.src))
          [] type = "inline-js" ->
                 e.tag = "script" /\ ~e.hasSrc /\ Trim(e.text) # <<>>
                 /\ scanRequest[1].options.js = "object"
                 /\ scanRequest[1].options.includeInline)

\* The origin a descriptor carries for its element
OriginOf(a) == IF a.type = "inline-js" THEN a.content ELSE a.url
OriginOfElement(e) == IF e.hasSrc THEN e.src ELSE e.text

\* C8: the sequence a scan returns holds exactly one page-html descriptor, at
\* position 0, then the external-script descriptors in document order, then
\* the inline-script descriptors in document order (when included), then the
\* frame-html descriptors in document order; it is never empty.
C8_ScanOrder ==
    (scanReplies # <<>> /\ scanReplies[1].success) =>
        LET assets == scanReplies[1].assets
            OfKind(type) == SelectSeq(assets, LAMBDA a : a.type = type)
        IN /\ assets # <<>>
           /\ assets[1].type = "html"
           /\ Len(OfKind("html")) = 1
           /\ \A i \in 1..(Len(assets) - 1) :
                  KindRank(assets[i].type) <= KindRank(assets[i + 1].type)
           /\ \A type \in {"external-js", "inline-js", "iframe-html"} :
                  /\ Len(OfKind(type)) = Len(Reported(type))
                  /\ \A k \in DOMAIN OfKind(type) :
                         OriginOf(OfKind(type)[k]) = OriginOfElement(Reported(type)[k])

\* A page whose inline script precedes its external script in the document
C8_Witness ==
    /\ Len(elements) = 2
    /\ ~elements[1].hasSrc
    /\ elements[2].tag = "script" /\ elements[2].hasSrc
    /\ Len(ScannedAssets) = 3
    /\ ScannedAssets[2].type = "external-js"
    /\ ScannedAssets[3].type = "inline-js"

-----------------------------------------------------------------------------
(* background.js: jsBeautify *)

IdentStart == Letters \cup {"_", "$"}

\* The concatenation of a sequence of texts
Flatten(parts) ==
    LET f[i \in 0..Len(parts)] == IF i = 0 THEN <<>> ELSE f[i - 1] \o parts[i]
    IN f[Len(parts)]

\* text.split('\n')
SplitLines(text) ==
    LET f[i \in 0..Len(text)] ==
            IF i = 0 THEN <<<<>>>>
            ELSE IF text[i] = "\n" THEN Append(f[i - 1], <<>>)
            ELSE [f[i - 1] EXCEPT ![Len(f[i - 1])] = Append(@, text[i])]
    IN f[Len(text)]

\* lines.join('\n')
JoinLines(lines) ==
    Flatten([k \in DOMAIN lines |-> IF k = 1 THEN lines[k] ELSE <<"\n">> \o lines[k]])

\* .replace(/;/g, ';\n').replace(/\{/g, '{\n').replace(/\}/g, '\n}\n')
BreakAfterTerminators(code) ==
    Flatten([i \in DOMAIN code |->
        CASE code[i] = ";" -> <<";", "\n">>
          [] code[i] = "{" -> <<"{", "\n">>
          [] code[i] = "}" -> <<"\n", "}", "\n">>
          [] OTHER -> <<code[i]>>])

\* .replace(/,(\s*[a-zA-Z_$])/g, ',\n$1')
BreakAfterCommas(code) ==
    LET NextNonSpace(i) ==
            LET later == {j \in DOMAIN code : j > i /\ code[j] \notin SpaceChars}
            IN IF later = {} THEN 0 ELSE CHOOSE j \in later : \A k \in later : j <= k
    IN Flatten([i \in DOMAIN code |->
           IF code[i] = "," /\ NextNonSpace(i) # 0
              /\ code[NextNonSpace(i)] \in IdentStart
           THEN <<",", "\n">> ELSE <<code[i]>>])

\* Mutant of CollapseBlankLines: blank lines are kept
CollapseBlankLines_kept(code) == code

\* .replace(/\n\s*\n/g, '\n'): in a run of white space, everything from its
\* first to its last newline becomes one newline
CollapseBlankLines(code) ==
    LET RunOf(i) == {j \in DOMAIN code :
                        \A k \in (IF j < i THEN j..i ELSE i..j) : code[k] \in SpaceChars}
        Newlines(i) == {j \in RunOf(i) : code[j] = "\n"}
        Dropped(i) == /\ code[i] \in SpaceChars
                      /\ \E f \in Newlines(i) : f < i /\ \A j \in Newlines(i) : f <= j
                      /\ \E l \in Newlines(i) : i <= l
    IN Flatten([i \in DOMAIN code |-> IF Dropped(i) THEN <<>> ELSE <<code[i]>>])

\* .replace(/\n{3,}/g, '\n\n')
CapNewlines(code) ==
    Flatten([i \in DOMAIN code |->
        IF i >= 3 /\ code[i] = "\n" /\ code[i - 1] = "\n" /\ code[i - 2] = "\n"
        THEN <<>> ELSE <<code[i]>>])

\* indentString.repeat(indentLevel)
Indent(level) == [i \in 1..(2 * level) |-> " "]

\* lines.map(...): re-indent by brace depth
IndentLines(lines) ==
    LET Has(line, c) == \E i \in DOMAIN line : line[i] = c
        \* the indent level before line k is read
        level[k \in 1..(Len(lines) + 1)] ==
            IF k = 1 THEN 0
            ELSE LET trimmed == Trim(lines[k - 1])
                     closed == IF trimmed # <<>> /\ Has(trimmed, "}")
                               THEN (IF level[k - 1] > 0 THEN level[k - 1] - 1 ELSE 0)
                               ELSE level[k - 1]
                 IN IF trimmed # <<>> /\ Has(trimmed, "{") THEN closed + 1 ELSE closed
    IN [k \in DOMAIN lines |->
           LET trimmed == Trim(lines[k])
               at == IF Has(trimmed, "}")
                     THEN (IF level[k] > 0 THEN level[k] - 1 ELSE 0)
                     ELSE level[k]
           IN IF trimmed = <<>> THEN <<>> ELSE Indent(at) \o trimmed]

\* jsBeautify.basicBeautify
basicBeautify(code) ==
    LET formatted == CapNewlines(CollapseBlankLines(
                         BreakAfterCommas(BreakAfterTerminators(code))))
    IN JoinLines(IndentLines(SplitLines(formatted)))

\* js_beautify(code, {..., end_with_newline: true}): the bundled library
js_beautify(code) ==
    IF code # <<>> /\ code[Len(code)] = "\n" THEN code ELSE Append(code, "\n")

\* Mutant of isAvailable: the engine is taken to be there whatever was loaded
isAvailable_always(loaded) == loaded = loaded

\* jsBeautify.isAvailable: js_beautify is defined by the same synchronous step
\* that sets jsBeautifyLoaded (importScripts, or eval in the load callback)
isAvailable(loaded) == loaded

\* Mutant of beautify: an engine failure yields empty text
beautify_emptyOnError(code, loaded, engineThrows) ==
    IF isAvailable(loaded)
    THEN (IF engineThrows THEN <<>> ELSE js_beautify(code))
    ELSE basicBeautify(code)

\* jsBeautify.beautify; engineThrows: the library call raises
beautify(code, loaded, engineThrows) ==
    IF isAvailable(loaded)
    THEN (IF engineThrows THEN code ELSE js_beautify(code))
    ELSE basicBeautify(code)

-----------------------------------------------------------------------------
(* background.js: downloadManager *)

EvilDownloads == <<"e", "v", "i", "l", "-", "d", "o", "w", "n", "l", "o", "a",
                   "d", "s", "/">>

NoUrl == [scheme |-> "none"]

\* The values of downloadFile's local `content`
Undefined == [js |-> "undefined"]
String(text) == [js |-> "string", text |-> text]

\* Mutant of TypeIncludesJs: every type is taken for script content
TypeIncludesJs_any(type) == type = type

\* asset.type.includes('js')
TypeIncludesJs(type) == type \in {"external-js", "inline-js"}

\* options.prettifyJs, with options = {} when the request carries none
PrettifyJs(request) ==
    "options" \in DOMAIN request /\ request.options.prettifyJs

\* downloadManager.getMimeType
getMimeType(type) ==
    CASE type \in {"html", "iframe-html"} -> "text/html"
      [] type \in {"external-js", "inline-js"} -> "application/javascript"
      [] OTHER -> "text/plain"

\* A reference URL as the save call receives it
HttpUrl(href) == [scheme |-> "http", href |-> href]

\* downloadManager.createDownloadUrl: the URL and the blob store after the call.
\* owner is the asset being processed, <<batch, index>>.
createDownloadUrl(content, mimeType, store, owner) ==
    IF host.blobUrls
    THEN [url |-> [scheme |-> "blob", id |-> Len(store) + 1],
          blobs |-> Append(store, [content |-> content, type |-> mimeType,
                                   owner |-> owner, revoked |-> FALSE,
                                   timer |-> "none"])]
    ELSE [url |-> [scheme |-> "data", mime |-> mimeType, text |-> content],
          blobs |-> store]

\* downloadFile, the catch block: the result of an asset whose processing raised
downloadFile_catch(asset, message) ==
    [success |-> FALSE, error |-> message, filename |-> asset.filename]

\* downloadFile, the return after the save call: the result of a started save
downloadFile_return(asset, downloadId) ==
    [success |-> TRUE, downloadId |-> downloadId, filename |-> asset.filename]

\* Mutant of results_push: the result is put in front (results.unshift)
results_unshift(results, result) == <<result>> \o results

\* downloadFiles line 256: results.push(result)
results_push(results, result) == Append(results, result)

\* Mutant of summarize: the failures are counted over a filter that keeps all
summarize_failedIsTotal(results) ==
    [total |-> Len(results),
     successful |-> Len(SelectSeq(results, LAMBDA r : r.success)),
     failed |-> Len(results)]

\* listener lines 285-295: the summary of a batch's results
summarize(results) ==
    LET successCount == Len(SelectSeq(results, LAMBDA r : r.success))
        failureCount == Len(SelectSeq(results, LAMBDA r : ~r.success))
    IN [total |-> Len(results), successful |-> successCount, failed |-> failureCount]

\* Mutant of downloadOptions: the file is saved under its bare name
downloadOptions_bareName(asset, url) ==
    [url |-> url,
     filename |-> asset.filename,
     saveAs |-> FALSE,
     conflictAction |-> "uniquify"]

\* downloadFile, lines 187-209: the options of the host save call
downloadOptions(asset, url) ==
    [url |-> url,
     filename |-> EvilDownloads \o asset.filename,
     saveAs |-> FALSE,
     conflictAction |-> "uniquify"]

\* downloadFile from its entry to its first await, for asset i of batch b:
\* the batch record and the blob store after it
downloadFile_enter(rec, b, i, store, engineThrows) ==
    LET asset == rec.request.assets[i]
        prettify == PrettifyJs(rec.request) /\ TypeIncludesJs(asset.type)
    IN IF HasContent(asset)
       THEN LET content == IF prettify
                           THEN beautify(asset.content, jsBeautifyLoaded, engineThrows)
                           ELSE asset.content
                made == createDownloadUrl(content, getMimeType(asset.type),
                                          store, <<b, i>>)
            IN [rec |-> [rec EXCEPT !.pc = "saving", !.i = i, !.url = made.url,
                                     !.content = String(content)],
                blobs |-> made.blobs]
       ELSE IF HasUrl(asset)
       THEN IF prettify
            THEN [rec |-> [rec EXCEPT !.pc = "fetching", !.i = i, !.url = NoUrl,
                                      !.content = Undefined],
                  blobs |-> store]
            ELSE [rec |-> [rec EXCEPT !.pc = "saving", !.i = i,
                                      !.url = HttpUrl(asset.url),
                                      !.content = Undefined],
                  blobs |-> store]
       ELSE [rec |-> [rec EXCEPT
                        !.pc = "pausing", !.i = i, !.url = NoUrl,
                        !.content = Undefined,
                        !.results = results_push(@,
                            downloadFile_catch(asset, "Asset has no content or URL"))],
             blobs |-> store]

\* listener lines 284-297: .then(results => sendResponse({success: true, ...})).
\* The callback is a microtask of the step that fulfils the promise.
downloadAssets_then(rec) ==
    [rec EXCEPT !.pc = "replied", !.url = NoUrl, !.content = Undefined,
                !.reply = Append(@, [success |-> TRUE,
                                     results |-> rec.results,
                                     summary |-> summarize(rec.results)])]

\* listener lines 298-303: .catch(error => sendResponse({success: false, ...}))
downloadAssets_catch(rec, message) ==
    [rec EXCEPT !.pc = "replied", !.url = NoUrl, !.content = Undefined,
                !.reply = Append(@, [success |-> FALSE, error |-> message])]

\* Mutant of downloadFiles_continue: the results are returned after the first
\* descriptor
downloadFiles_returnsEarly(rec, b, i, store, engineThrows) ==
    IF i > 1 \/ i > Len(rec.request.assets)
    THEN [rec |-> downloadAssets_then(rec), blobs |-> store]
    ELSE downloadFile_enter(rec, b, i, store, engineThrows)

\* downloadFiles from the point where asset i is due: the loop's next
\* iteration, or the return of the results after the last one
downloadFiles_continue(rec, b, i, store, engineThrows) ==
    IF i > Len(rec.request.assets)
    THEN [rec |-> downloadAssets_then(rec), blobs |-> store]
    ELSE downloadFile_enter(rec, b, i, store, engineThrows)

\* downloadFiles as the listener calls it, up to its first await or its reply
downloadFiles(rec, b, store, engineThrows) ==
    IF "assets" \notin DOMAIN rec.request
    THEN [rec |-> downloadAssets_catch(rec, "TypeError"), blobs |-> store]
    ELSE downloadFiles_continue(rec, b, 1, store, engineThrows)

\* downloadManager.fetchExternalContent: the text of a 2xx response, else null
fetchExternalContent(outcome) ==
    IF outcome.kind = "response" /\ outcome.ok
    THEN String(outcome.text)
    ELSE [js |-> "null"]

-----------------------------------------------------------------------------
(* The requests the background context receives *)

InlineAsset ==
    [content |-> <<"a", ";", "b">>,
     filename |-> InlineScriptPrefix \o <<"1">> \o DotJs,
     type |-> "inline-js"]
ExternalAsset ==
    [url |-> Https \o Host \o <<"/", "a", ".", "j", "s">>,
     filename |-> <<"a">> \o DotJs,
     type |-> "external-js"]
PageAsset ==
    [content |-> outerHTML(<<>>),
     filename |-> <<"p">> \o DotHtml,
     type |-> "html",
     url |-> Https \o Host \o <<"/", "p">>]
FrameAsset ==
    [url |-> Https \o Host \o <<"/", "f", ".", "h", "t", "m", "l">>,
     filename |-> <<"f">> \o DotHtml,
     type |-> "iframe-html"]
\* a descriptor with neither content nor URL
EmptyAsset ==
    [filename |-> <<"n">> \o DotJs, type |-> "external-js"]

AssetPool == {InlineAsset, ExternalAsset, PageAsset, FrameAsset, EmptyAsset}
AssetSeqs == UNION {[1..n -> AssetPool] : n \in 0..MaxAssets}

\* the downloadAssets requests the listener is given
DownloadRequests ==
    {[action |-> "downloadAssets", assets |-> s, options |-> [prettifyJs |-> p]] :
        s \in AssetSeqs, p \in BOOLEAN}
    \cup {[action |-> "downloadAssets"]}

\* what popup.js downloadAssets sends: processDownload returns before it when
\* the scan found nothing. The other requests come from another sender.
PopupRequests ==
    {r \in DownloadRequests :
        "assets" \in DOMAIN r /\ "options" \in DOMAIN r /\ r.assets # <<>>}

\* what fetch(url) may do
FetchOutcomes ==
    { [kind |-> "network-error"],
      [kind |-> "response", ok |-> FALSE, text |-> <<"e">>],
      [kind |-> "response", ok |-> TRUE, text |-> <<>>],
      [kind |-> "response", ok |-> TRUE, text |-> <<"c", ";">>] }

Batches == 1..MaxBatches

\* The descriptors of a request
AssetsOf(request) == IF "assets" \in DOMAIN request THEN request.assets ELSE <<>>

RECURSIVE Sum(_, _)
Sum(f, S) == IF S = {} THEN 0
             ELSE LET x == CHOOSE x \in S : TRUE IN f[x] + Sum(f, S \ {x})

UnusedBatch ==
    [pc |-> "unused", request |-> [action |-> "none"],
     i |-> 0, content |-> Undefined, url |-> NoUrl, results |-> <<>>,
     reply |-> <<>>]

-----------------------------------------------------------------------------
(* background.js and popup.js: the actions *)

Init ==
    /\ location = Https \o Host \o <<"/">>
    /\ elements = <<>>
    /\ scanRequest = <<>>
    /\ scanPending = <<>>
    /\ scanReplies = <<>>
    /\ host \in {ChromeHost, FirefoxHost}
    /\ jsBeautifyLoaded = host.importScripts
    /\ engineLoading = ~host.importScripts
    /\ batches = [b \in Batches |-> UnusedBatch]
    /\ blobs = <<>>
    /\ downloads = <<>>
    /\ popup = [disabled |-> FALSE, waitingFor |-> 0]
    /\ beautifyRequest = <<>>
    /\ beautifyCall = <<>>
    /\ beautifyReplies = <<>>

\* background.js lines 20-33: the dynamic load of the engine settles
jsBeautify_loadSettles(outcome) ==
    /\ engineLoading
    /\ engineLoading' = FALSE
    /\ jsBeautifyLoaded' = (outcome = "loaded")
    /\ UNCHANGED <<scanVars, beautifyVars, host, batches, blobs, downloads, popup>>

\* popup.js processDownload, finally: the button is enabled again when the
\* reply reaches the popup that is waiting for it
PopupAfterReply(b) ==
    IF popup.waitingFor = b THEN [disabled |-> FALSE, waitingFor |-> 0] ELSE popup

\* listener, request.action === 'downloadAssets'. A request of the popup is
\* processDownload past its scan: the button is disabled until the reply.
onMessage_downloadAssets(request, engineThrows) ==
    /\ \E b \in Batches :
        /\ batches[b].pc = "unused"
        /\ \A c \in Batches : c < b => batches[c].pc # "unused"
        /\ request \in PopupRequests => ~popup.disabled
        /\ Len(AssetsOf(request))
             + Sum([c \in Batches |-> Len(AssetsOf(batches[c].request))], Batches)
           <= MaxAssets
        /\ LET started == downloadFiles(
                   [UnusedBatch EXCEPT !.request = request],
                   b, blobs, engineThrows)
           IN /\ batches' = [batches EXCEPT ![b] = started.rec]
              /\ blobs' = started.blobs
        /\ popup' = IF request \in PopupRequests
                    THEN [disabled |-> TRUE, waitingFor |-> b] ELSE popup
    /\ UNCHANGED <<scanVars, beautifyVars, host, jsBeautifyLoaded, engineLoading, downloads>>

\* Mutant of fetch_settles: a failed fetch is raised instead of falling back
fetch_settles_noFallback(b, outcome, engineThrows) ==
    /\ batches[b].pc = "fetching"
    /\ LET rec == batches[b]
           asset == rec.request.assets[rec.i]
           content == fetchExternalContent(outcome)
       IN IF content.js = "string" /\ content.text # <<>>
          THEN LET formatted == beautify(content.text, jsBeautifyLoaded, engineThrows)
                   made == createDownloadUrl(formatted, getMimeType(asset.type),
                                             blobs, <<b, rec.i>>)
               IN /\ batches' = [batches EXCEPT ![b].pc = "saving",
                                                ![b].url = made.url,
                                                ![b].content = String(formatted)]
                  /\ blobs' = made.blobs
          ELSE /\ batches' = [batches EXCEPT
                      ![b].pc = "pausing",
                      ![b].content = content,
                      ![b].results = results_push(@,
                          downloadFile_catch(asset, "fetch failed"))]
               /\ blobs' = blobs
    /\ UNCHANGED <<scanVars, beautifyVars, host, jsBeautifyLoaded, engineLoading, downloads, popup>>

\* downloadFile lines 170-178: the fetch of a script reference settles
fetch_settles(b, outcome, engineThrows) ==
    /\ batches[b].pc = "fetching"
    /\ LET rec == batches[b]
           asset == rec.request.assets[rec.i]
           content == fetchExternalContent(outcome)
       IN IF content.js = "string" /\ content.text # <<>>
          THEN LET formatted == beautify(content.text, jsBeautifyLoaded, engineThrows)
                   made == createDownloadUrl(formatted, getMimeType(asset.type),
                                             blobs, <<b, rec.i>>)
               IN /\ batches' = [batches EXCEPT ![b].pc = "saving",
                                                ![b].url = made.url,
                                                ![b].content = String(formatted)]
                  /\ blobs' = made.blobs
          ELSE /\ batches' = [batches EXCEPT ![b].pc = "saving",
                                             ![b].url = HttpUrl(asset.url),
                                             ![b].content = content]
               /\ blobs' = blobs
    /\ UNCHANGED <<scanVars, beautifyVars, host, jsBeautifyLoaded, engineLoading, downloads, popup>>

\* Mutant of download_resolves: the loop goes on to the next descriptor
\* without the pause
download_resolves_noPause(b) ==
    /\ batches[b].pc = "saving"
    /\ LET rec == batches[b]
           asset == rec.request.assets[rec.i]
           downloadId == Len(downloads) + 1
           recorded == [rec EXCEPT !.results =
                            results_push(@, downloadFile_return(asset, downloadId))]
           store == IF rec.url.scheme = "blob"
                    THEN [blobs EXCEPT ![rec.url.id].timer = "pending"]
                    ELSE blobs
           next == downloadFiles_continue(recorded, b, rec.i + 1, store, FALSE)
       IN /\ downloads' = Append(downloads,
                 [id |-> downloadId, owner |-> <<b, rec.i>>,
                  options |-> downloadOptions(asset, rec.url)])
          /\ blobs' = next.blobs
          /\ batches' = [batches EXCEPT ![b] = next.rec]
          /\ popup' = IF next.rec.pc = "replied" THEN PopupAfterReply(b) ELSE popup
    /\ UNCHANGED <<scanVars, beautifyVars, host, jsBeautifyLoaded, engineLoading>>

\* Mutant of download_resolves: the URL to release is kept in one place shared
\* by all calls, so the timer is set for the handle created last
download_resolves_sharedUrl(b) ==
    /\ batches[b].pc = "saving"
    /\ LET rec == batches[b]
           asset == rec.request.assets[rec.i]
           downloadId == Len(downloads) + 1
       IN /\ downloads' = Append(downloads,
                 [id |-> downloadId, owner |-> <<b, rec.i>>,
                  options |-> downloadOptions(asset, rec.url)])
          /\ blobs' = IF rec.url.scheme = "blob"
                      THEN [blobs EXCEPT ![Len(blobs)].timer = "pending"]
                      ELSE blobs
          /\ batches' = [batches EXCEPT
                 ![b].pc = "pausing",
                 ![b].results = results_push(@, downloadFile_return(asset, downloadId))]
    /\ UNCHANGED <<scanVars, beautifyVars, host, jsBeautifyLoaded, engineLoading, popup>>

\* downloadFile lines 209-238: chrome.downloads.download resolves
download_resolves(b) ==
    /\ batches[b].pc = "saving"
    /\ LET rec == batches[b]
           asset == rec.request.assets[rec.i]
           downloadId == Len(downloads) + 1
       IN /\ downloads' = Append(downloads,
                 [id |-> downloadId, owner |-> <<b, rec.i>>,
                  options |-> downloadOptions(asset, rec.url)])
          /\ blobs' = IF rec.url.scheme = "blob"
                      THEN [blobs EXCEPT ![rec.url.id].timer = "pending"]
                      ELSE blobs
          /\ batches' = [batches EXCEPT
                 ![b].pc = "pausing",
                 ![b].results = results_push(@, downloadFile_return(asset, downloadId))]
    /\ UNCHANGED <<scanVars, beautifyVars, host, jsBeautifyLoaded, engineLoading, popup>>

\* Mutant of download_rejects: downloadFile has no catch, the batch is aborted
download_rejects_unhandled(b) ==
    /\ batches[b].pc = "saving"
    /\ batches' = [batches EXCEPT ![b] = downloadAssets_catch(@, "download failed")]
    /\ popup' = PopupAfterReply(b)
    /\ UNCHANGED <<scanVars, beautifyVars, host, jsBeautifyLoaded, engineLoading, blobs, downloads>>

\* downloadFile lines 209 and 239-242: chrome.downloads.download raises
download_rejects(b) ==
    /\ batches[b].pc = "saving"
    /\ LET rec == batches[b]
           asset == rec.request.assets[rec.i]
       IN batches' = [batches EXCEPT
              ![b].pc = "pausing",
              ![b].results = results_push(@, downloadFile_catch(asset, "download failed"))]
    /\ UNCHANGED <<scanVars, beautifyVars, host, jsBeautifyLoaded, engineLoading, blobs, downloads, popup>>

\* downloadFiles lines 254-262: the 200 ms pause ends, the loop goes on
pause_elapses(b, engineThrows) ==
    /\ batches[b].pc = "pausing"
    /\ LET next == downloadFiles_continue(batches[b], b, batches[b].i + 1,
                                          blobs, engineThrows)
       IN /\ batches' = [batches EXCEPT ![b] = next.rec]
          /\ blobs' = next.blobs
          /\ popup' = IF next.rec.pc = "replied" THEN PopupAfterReply(b) ELSE popup
    /\ UNCHANGED <<scanVars, beautifyVars, host, jsBeautifyLoaded, engineLoading, downloads>>

\* downloadFile lines 215-222: the 5 s timer fires, URL.revokeObjectURL(url)
revokeObjectURL_timer(k) ==
    /\ blobs[k].timer = "pending"
    /\ blobs' = [blobs EXCEPT ![k].timer = "fired", ![k].revoked = TRUE]
    /\ UNCHANGED <<scanVars, beautifyVars, host, jsBeautifyLoaded, engineLoading, batches, downloads, popup>>

\* popup.js: the popup is closed and opened again, a fresh document whose
\* button is enabled; the callbacks of the closed popup are gone
popup_reopened ==
    /\ popup.disabled
    /\ popup' = [disabled |-> FALSE, waitingFor |-> 0]
    /\ UNCHANGED <<scanVars, beautifyVars, host, jsBeautifyLoaded, engineLoading, batches, blobs, downloads>>

\* whether a call of the library raises; it is called only once loaded
EngineOutcomes == IF jsBeautifyLoaded THEN BOOLEAN ELSE {FALSE}

Next ==
    \/ \E outcome \in {"loaded", "failed"} : jsBeautify_loadSettles(outcome)
    \/ \E request \in DownloadRequests, engineThrows \in EngineOutcomes :
            onMessage_downloadAssets(request, engineThrows)
    \/ \E b \in Batches, outcome \in FetchOutcomes, engineThrows \in EngineOutcomes :
            fetch_settles(b, outcome, engineThrows)
    \/ \E b \in Batches : download_resolves(b)
    \/ \E b \in Batches : download_rejects(b)
    \/ \E b \in Batches, engineThrows \in EngineOutcomes :
            pause_elapses(b, engineThrows)
    \/ \E k \in DOMAIN blobs : revokeObjectURL_timer(k)
    \/ popup_reopened

Spec == Init /\ [][Next]_vars

-----------------------------------------------------------------------------
(* Orchestrator claims, checked under Spec *)

\* the batches that were given a sequence of descriptors
WithAssets == {b \in Batches : "assets" \in DOMAIN batches[b].request}

\* the batches downloadFiles is working on
Processing == {b \in Batches : batches[b].pc \in {"fetching", "saving", "pausing"}}

\* the download item the host started for asset k of batch b, if any
ItemsOf(b, k) == {n \in DOMAIN downloads : downloads[n].owner = <<b, k>>}

\* C1: a failure while resolving or saving a descriptor is recorded as a
\* failed result for that descriptor only and the batch goes on: every batch
\* is answered with success:true and one result per descriptor, and a
\* descriptor's result is failed exactly when its own save was not started.
C1_FailureStaysWithItsDescriptor ==
    \A b \in WithAssets :
        LET rec == batches[b]
            assets == rec.request.assets
        IN /\ \A k \in DOMAIN rec.results :
                  /\ k <= Len(assets)
                  /\ rec.results[k].success = (ItemsOf(b, k) # {})
                  /\ ~rec.results[k].success =>
                        rec.results[k].error =
                            (IF HasContent(assets[k]) \/ HasUrl(assets[k])
                             THEN "download failed" ELSE "Asset has no content or URL")
           /\ rec.pc = "replied" => Len(rec.results) = Len(assets)
           /\ rec.pc = "replied" =>
                  /\ rec.reply[1].success
                  /\ rec.reply[1].results = rec.results

\* two assets, the first save succeeds, the second raises: [succeeded, failed], {2,1,1}
C1_Witness ==
    \E b \in WithAssets :
        /\ batches[b].pc = "replied"
        /\ Len(batches[b].request.assets) = 2
        /\ batches[b].reply[1].success
        /\ batches[b].reply[1].results[1].success
        /\ ~batches[b].reply[1].results[2].success
        /\ batches[b].reply[1].results[2].error = "download failed"
        /\ batches[b].reply[1].summary = [total |-> 2, successful |-> 1, failed |-> 1]

\* C2: every blob URL the orchestrator creates is released after the grace
\* period on every exit path of its asset's processing: once the save call of
\* its asset has settled, the handle is revoked or its revocation is pending.
C2_EveryHandleIsReleased ==
    \A k \in DOMAIN blobs :
        \/ blobs[k].revoked
        \/ blobs[k].timer = "pending"
        \/ LET b == blobs[k].owner[1]
           IN batches[b].pc = "saving" /\ batches[b].i = blobs[k].owner[2]

\* C3: a script descriptor with only a reference URL, processed with
\* beautifyScripts set, whose fetch fails (content is null) is saved from its
\* original URL, and its result is succeeded with the descriptor's name unless
\* the save call itself raises.
C3_FetchFailureFallsBack ==
    \A b \in WithAssets :
        LET rec == batches[b]
        IN rec.content.js = "null" =>
               LET asset == rec.request.assets[rec.i]
               IN /\ rec.pc \in {"saving", "pausing"}
                  /\ rec.url = HttpUrl(asset.url)
                  /\ rec.pc = "pausing" =>
                        LET r == rec.results[rec.i]
                        IN /\ r.filename = asset.filename
                           /\ ~r.success => r.error = "download failed"
                           /\ r.success =>
                                 \E n \in ItemsOf(b, rec.i) :
                                     /\ downloads[n].id = r.downloadId
                                     /\ downloads[n].options.url = HttpUrl(asset.url)

C3_Witness ==
    \E b \in WithAssets :
        /\ batches[b].content.js = "null"
        /\ batches[b].pc = "pausing"
        /\ batches[b].request.assets[batches[b].i] = ExternalAsset
        /\ batches[b].results[batches[b].i] =
               [success |-> TRUE, downloadId |-> 1, filename |-> <<"a">> \o DotJs]

\* C4: at any time at most one batch is being processed by the orchestrator.
C4_AtMostOneBatch == Cardinality(Processing) <= 1

\* C9: the results of a batch are in the order of its descriptors, one per
\* descriptor: result i carries descriptor i's suggested name.
C9_ResultsFollowInput ==
    \A b \in WithAssets :
        LET rec == batches[b]
            assets == rec.request.assets
        IN /\ Len(rec.results) <= Len(assets)
           /\ \A k \in DOMAIN rec.results : rec.results[k].filename = assets[k].filename
           /\ rec.pc = "replied" /\ rec.reply[1].success =>
                  /\ Len(rec.reply[1].results) = Len(assets)
                  /\ \A k \in DOMAIN assets :
                         rec.reply[1].results[k].filename = assets[k].filename

C9_Witness ==
    \E b \in WithAssets :
        /\ batches[b].pc = "replied"
        /\ batches[b].request.assets = <<FrameAsset, InlineAsset>>
        /\ batches[b].reply[1].results[1].filename = FrameAsset.filename
        /\ batches[b].reply[1].results[2].filename = InlineAsset.filename
        /\ ~batches[b].reply[1].results[1].success
        /\ batches[b].reply[1].results[2].success

\* C10: in every downloadAssets reply with success:true, summary.total is the
\* number of input descriptors, summary.successful the number of succeeded
\* results, and total = successful + failed; an empty asset sequence gives
\* empty results and the summary {0, 0, 0}.
C10_SummaryCounts ==
    \A b \in Batches :
        (batches[b].pc = "replied" /\ batches[b].reply[1].success) =>
            LET reply == batches[b].reply[1]
                assets == batches[b].request.assets
            IN /\ reply.summary.total = Len(assets)
               /\ reply.summary.successful =
                      Cardinality({k \in DOMAIN reply.results : reply.results[k].success})
               /\ reply.summary.total = reply.summary.successful + reply.summary.failed
               /\ assets = <<>> =>
                      /\ reply.results = <<>>
                      /\ reply.summary = [total |-> 0, successful |-> 0, failed |-> 0]

\* one reply for an empty sequence, one for a batch with a success and a failure
C10_Witness ==
    \E b, c \in WithAssets :
        /\ batches[b].pc = "replied" /\ batches[c].pc = "replied"
        /\ batches[b].request.assets = <<>>
        /\ batches[b].reply[1].success
        /\ batches[c].reply[1].success
        /\ batches[c].reply[1].summary = [total |-> 2, successful |-> 1, failed |-> 1]

\* the save calls made so far: the ones the host answered with a download id
\* and the ones in flight, each with the descriptor it was made for
SaveRequests ==
    {[asset |-> batches[downloads[n].owner[1]].request.assets[downloads[n].owner[2]],
      options |-> downloads[n].options] : n \in DOMAIN downloads}
    \cup {[asset |-> batches[b].request.assets[batches[b].i],
           options |-> downloadOptions(batches[b].request.assets[batches[b].i],
                                       batches[b].url)] :
             b \in {c \in Batches : batches[c].pc = "saving"}}

\* C11: every save request the orchestrator issues has the save dialog
\* suppressed (saveAs false), the collision policy uniquify, and as destination
\* the fixed subfolder followed directly by the descriptor's suggested name.
C11_SaveRequestSettings ==
    \A r \in SaveRequests :
        /\ r.options.saveAs = FALSE
        /\ r.options.conflictAction = "uniquify"
        /\ r.options.filename = EvilDownloads \o r.asset.filename
        /\ StartsWith(r.options.filename,
                      <<"e", "v", "i", "l", "-", "d", "o", "w", "n", "l", "o", "a",
                        "d", "s", "/">>)

\* a save of formatted content and a save of a reference have both been started
C11_Witness ==
    /\ \E n \in DOMAIN downloads :
           /\ downloads[n].options.url.scheme \in {"blob", "data"}
           /\ downloads[n].options.filename = EvilDownloads \o InlineAsset.filename
    /\ \E n \in DOMAIN downloads :
           /\ downloads[n].options.url.scheme = "http"
           /\ downloads[n].options.filename = EvilDownloads \o FrameAsset.filename

-----------------------------------------------------------------------------
(* background.js: the beautifyJs listener and the formatter on its own *)

\* the script texts handed to the formatter
CodeAlphabet == {"a", ";", ",", "{", "}", " ", "\n"}
CodePool == UNION {[1..n -> CodeAlphabet] : n \in 0..MaxCodeLen}

\* the beautifyJs requests the listener is given; request.code may be missing
BeautifyRequests ==
    {[action |-> "beautifyJs", code |-> c] : c \in CodePool}
    \cup {[action |-> "beautifyJs"]}

\* jsBeautify.beautify(code) for any value of code: the availability it
\* observed, whether its path raised, and what it returned. A value that is not
\* a string makes basicBeautify raise at code.replace (caught, the value is
\* returned); the library is given it as empty text or raises.
beautifyValue(code, loaded, engineThrows) ==
    LET available == isAvailable(loaded)
    IN [code |-> code,
        available |-> available,
        raised |-> IF available THEN engineThrows ELSE code.js # "string",
        returned |-> IF code.js = "string"
                     THEN String(beautify(code.text, loaded, engineThrows))
                     ELSE IF available /\ ~engineThrows
                     THEN String(js_beautify(<<>>))
                     ELSE code]

\* listener, request.action === 'beautifyJs': answered in the same step
onMessage_beautifyJs(request, engineThrows) ==
    /\ LET code == IF "code" \in DOMAIN request THEN String(request.code)
                   ELSE Undefined
           call == beautifyValue(code, jsBeautifyLoaded, engineThrows)
       IN /\ beautifyRequest' = <<request>>
          /\ beautifyCall' = <<call>>
          /\ beautifyReplies' = <<[success |-> TRUE, code |-> call.returned]>>
    /\ UNCHANGED <<scanVars, host, jsBeautifyLoaded, engineLoading,
                   batches, blobs, downloads, popup>>

\* The formatter on its own: one beautifyJs message is on its way to the
\* listener while the engine is in any of its states
FormatInit ==
    /\ location = Https \o Host \o <<"/">>
    /\ elements = <<>>
    /\ scanRequest = <<>>
    /\ scanPending = <<>>
    /\ scanReplies = <<>>
    /\ host \in {ChromeHost, FirefoxHost}
    /\ jsBeautifyLoaded = host.importScripts
    /\ engineLoading = ~host.importScripts
    /\ batches = [b \in Batches |-> UnusedBatch]
    /\ blobs = <<>>
    /\ downloads = <<>>
    /\ popup = [disabled |-> FALSE, waitingFor |-> 0]
    /\ beautifyRequest \in {<<request>> : request \in BeautifyRequests}
    /\ beautifyCall = <<>>
    /\ beautifyReplies = <<>>

FormatNext ==
    \/ \E outcome \in {"loaded", "failed"} : jsBeautify_loadSettles(outcome)
    \/ \E engineThrows \in EngineOutcomes :
            /\ beautifyReplies = <<>>
            /\ onMessage_beautifyJs(beautifyRequest[1], engineThrows)

FormatSpec == FormatInit /\ [][FormatNext]_vars

-----------------------------------------------------------------------------
(* Formatter claims, checked under FormatSpec *)

\* C13: jsBeautify.beautify is total: for every text and both engine states
\* it returns a text and no exception escapes (the listener answers
\* success:true with what it returned); when its path raised, what it returns
\* is its argument unchanged.
C13_FormatIsTotal ==
    beautifyCall # <<>> =>
        LET call == beautifyCall[1]
        IN /\ beautifyReplies = <<[success |-> TRUE, code |-> call.returned]>>
           /\ call.code.js = "string" =>
                  /\ call.returned.js = "string"
                  /\ \A i \in DOMAIN call.returned.text :
                         call.returned.text[i] \in CodeAlphabet
           /\ call.raised => call.returned = call.code
           /\ (~call.raised /\ call.code.js = "string") =>
                  call.returned.text =
                      (IF call.available THEN js_beautify(call.code.text)
                       ELSE basicBeautify(call.code.text))

\* the engine raised on a text and the text came back unchanged
C13_Witness ==
    /\ beautifyCall # <<>>
    /\ beautifyCall[1].available
    /\ beautifyCall[1].raised
    /\ beautifyCall[1].code = String(<<"a", ";", "a">>)
    /\ beautifyReplies = <<[success |-> TRUE, code |-> String(<<"a", ";", "a">>)]>>

-----------------------------------------------------------------------------
(* The three request/response exchanges together: scanAssets in the page,
   downloadAssets and beautifyJs in the background context *)

\* the downloadAssets requests of the exchanges: without assets, or with
\* prettifyJs set and no descriptor or a script reference followed by a
\* descriptor that cannot be saved. The popup stays open during them.
ExchangeRequests ==
    {r \in DownloadRequests :
        \/ "assets" \notin DOMAIN r
        \/ PrettifyJs(r) /\ r.assets \in {<<>>, <<ExternalAsset, EmptyAsset>>}}

\* the beautifyJs requests of the exchanges
ExchangeCodes ==
    {r \in BeautifyRequests : "code" \in DOMAIN r => r.code = <<"a", ";", "a">>}

\* the options of the scanAssets requests of the exchanges: null, which makes
\* the scan raise, and includeInline set
ExchangeScanOptions ==
    {o \in ScanOptionValues : o.js = "null" \/ (o.js = "object" /\ o.includeInline)}

ExchangeNext ==
    \/ \E options \in ExchangeScanOptions : onMessage_scanAssets(options)
    \/ scanAssets_then
    \/ scanAssets_catch
    \/ \E outcome \in {"loaded", "failed"} : jsBeautify_loadSettles(outcome)
    \/ \E request \in ExchangeRequests, engineThrows \in EngineOutcomes :
            onMessage_downloadAssets(request, engineThrows)
    \/ \E b \in Batches, outcome \in FetchOutcomes, engineThrows \in EngineOutcomes :
            fetch_settles(b, outcome, engineThrows)
    \/ \E b \in Batches : download_resolves(b)
    \/ \E b \in Batches : download_rejects(b)
    \/ \E b \in Batches, engineThrows \in EngineOutcomes :
            pause_elapses(b, engineThrows)
    \/ \E k \in DOMAIN blobs : revokeObjectURL_timer(k)
    \/ \E request \in ExchangeCodes, engineThrows \in EngineOutcomes :
            onMessage_beautifyJs(request, engineThrows)

\* Promise callbacks are run once their promise has settled; fetch and
\* chrome.downloads.download settle; the 200 ms timer fires
ExchangeFairness ==
    /\ WF_vars(scanAssets_then)
    /\ WF_vars(scanAssets_catch)
    /\ \A b \in Batches :
           /\ WF_vars(\E outcome \in FetchOutcomes, engineThrows \in EngineOutcomes :
                          fetch_settles(b, outcome, engineThrows))
           /\ WF_vars(download_resolves(b) \/ download_rejects(b))
           /\ WF_vars(\E engineThrows \in EngineOutcomes : pause_elapses(b, engineThrows))

ExchangeSpec == Init /\ [][ExchangeNext]_vars /\ ExchangeFairness

\* a response is {success: true, payload} or {success: false, error}
IsResponse(r, payload) ==
    /\ r.success \in BOOLEAN
    /\ r.success => payload \in DOMAIN r
    /\ ~r.success => "error" \in DOMAIN r

\* what holds of the responses at every moment
ExchangeResponses ==
    /\ Len(scanReplies) <= 1
    /\ (scanRequest # <<>> /\ scanPending = <<>>) => Len(scanReplies) = 1
    /\ scanPending # <<>> => scanReplies = <<>>
    /\ \A i \in DOMAIN scanReplies : IsResponse(scanReplies[i], "assets")
    /\ beautifyRequest # <<>> => Len(beautifyReplies) = 1
    /\ \A i \in DOMAIN beautifyReplies : IsResponse(beautifyReplies[i], "code")
    /\ \A b \in Batches :
           LET rec == batches[b]
           IN /\ Len(rec.reply) <= 1
              /\ rec.pc = "replied" <=> Len(rec.reply) = 1
              /\ \A i \in DOMAIN rec.reply :
                     /\ IsResponse(rec.reply[i], "results")
                     /\ "assets" \in DOMAIN rec.request =>
                            /\ Len(rec.results) = Len(rec.request.assets)
                            /\ rec.reply[i].success
                            /\ rec.reply[i].results = rec.results

\* C12: every scanAssets, downloadAssets and beautifyJs request receives
\* exactly one response, never two and in the end never none, of the form
\* {success: true, payload} or {success: false, error}; the downloadAssets
\* response is sent only once every descriptor of the batch has a result.
C12_ExactlyOneResponse ==
    /\ []ExchangeResponses
    /\ (scanPending # <<>>) ~> (Len(scanReplies) = 1)
    /\ \A b \in Batches :
           (batches[b].pc # "unused") ~> (Len(batches[b].reply) = 1)

\* all three kinds of request have been answered, the batch after two results
C12_Witness ==
    /\ Len(scanReplies) = 1
    /\ Len(beautifyReplies) = 1
    /\ \E b \in WithAssets :
           /\ batches[b].request.assets = <<ExternalAsset, EmptyAsset>>
           /\ Len(batches[b].reply) = 1
           /\ Len(batches[b].reply[1].results) = 2

-----------------------------------------------------------------------------
(* More scanner claims, checked under ScanSpec *)

\* the request being answered has includeInline set
IncludeInline ==
    /\ scanRequest # <<>>
    /\ scanRequest[1].options.js = "object"
    /\ scanRequest[1].options.includeInline

\* C14: when includeInline is not set a scan emits no inline-script descriptor
\* whatever the number of inline scripts; on a page with inline scripts only
\* and no frame the result is exactly [page-html].
C14_NoInlineUnlessIncluded ==
    (scanReplies # <<>> /\ scanReplies[1].success /\ ~IncludeInline) =>
        LET assets == scanReplies[1].assets
        IN /\ \A i \in DOMAIN assets : assets[i].type # "inline-js"
           /\ (\A k \in DOMAIN elements :
                   elements[k].tag = "script" /\ ~elements[k].hasSrc) =>
                  /\ Len(assets) = 1
                  /\ assets[1].type = "html"

\* a page of one inline script, scanned without includeInline: [page-html]
C14_Witness ==
    /\ elements = <<[tag |-> "script", hasSrc |-> FALSE, src |-> <<>>,
                     text |-> <<"a", ";", "b">>]>>
    /\ scanReplies # <<>> /\ scanReplies[1].success
    /\ ~IncludeInline
    /\ Len(scanReplies[1].assets) = 1
    /\ scanReplies[1].assets[1].type = "html"

-----------------------------------------------------------------------------
(* More orchestrator claims, checked under Spec *)

\* the text a download URL made by createDownloadUrl stands for
HandleText(url) ==
    IF url.scheme = "blob" THEN blobs[url.id].content ELSE url.text

\* C15: for a script descriptor with only a reference URL, processed with
\* prettifyJs set, whenever the fetch succeeds (2xx, every body, the empty one
\* included) the save is made from a content handle holding the formatted
\* text, not from the reference URL.
C15_FetchedTextIsFormatted ==
    \A b \in WithAssets :
        LET rec == batches[b]
        IN (rec.pc = "saving" /\ rec.content.js = "string"
            /\ ~HasContent(rec.request.assets[rec.i])) =>
               /\ rec.url.scheme \in {"blob", "data"}
               /\ HandleText(rec.url) = rec.content.text

\* script content: the kinds external-script and inline-script
IsScript(asset) == asset.type \in {"external-js", "inline-js"}

\* prettifyJs is set in the options of the request
BeautifyScripts(request) ==
    "options" \in DOMAIN request /\ request.options.prettifyJs = TRUE

\* C16: a fetch is made for a descriptor only if it has no inline content,
\* carries a reference URL, is script content and prettifyJs is set; in every
\* other case no fetch is made, a reference descriptor is saved directly from
\* its URL, and content that is not script (or not to be prettified) is saved
\* as it is.
C16_FetchOnlyWhenNeeded ==
    \A b \in WithAssets :
        LET rec == batches[b]
        IN rec.pc \in {"fetching", "saving"} =>
               LET asset == rec.request.assets[rec.i]
                   wanted == IsScript(asset) /\ BeautifyScripts(rec.request)
               IN /\ rec.pc = "fetching" =>
                         ~HasContent(asset) /\ HasUrl(asset) /\ wanted
                  /\ (rec.pc = "saving" /\ ~HasContent(asset) /\ ~wanted) =>
                         /\ rec.content = Undefined
                         /\ rec.url = HttpUrl(asset.url)
                  /\ (rec.pc = "saving" /\ HasContent(asset)) =>
                         /\ rec.url.scheme \in {"blob", "data"}
                         /\ ~wanted => HandleText(rec.url) = asset.content

\* with prettifyJs set and the engine loaded, the page's HTML is saved as it
\* is and a frame is saved from its URL
C16_Witness ==
    /\ jsBeautifyLoaded
    /\ \E b \in WithAssets :
           /\ batches[b].pc = "saving"
           /\ BeautifyScripts(batches[b].request)
           /\ batches[b].request.assets[batches[b].i] = PageAsset
           /\ HandleText(batches[b].url) = PageAsset.content
    /\ \E b \in WithAssets :
           /\ batches[b].pc = "saving"
           /\ BeautifyScripts(batches[b].request)
           /\ batches[b].request.assets[batches[b].i] = FrameAsset
           /\ batches[b].url = HttpUrl(FrameAsset.url)

\* the descriptor a batch is at has no result yet while it is resolved,
\* fetched or saved, and has one during the pause; no later descriptor has
\* been touched
AtOneDescriptor(rec, b) ==
    /\ rec.pc \in {"fetching", "saving"} => Len(rec.results) = rec.i - 1
    /\ rec.pc = "pausing" => Len(rec.results) = rec.i
    /\ \A n \in DOMAIN downloads :
           downloads[n].owner[1] = b => downloads[n].owner[2] <= rec.i
    /\ \A k \in DOMAIN blobs : blobs[k].owner[1] = b => blobs[k].owner[2] <= rec.i

\* C17: within a batch, the processing of descriptor i+1 begins only after
\* the result of descriptor i has been recorded and the pause after it has
\* elapsed; two descriptors of a batch are never in processing together.
C17_OneDescriptorAtATime ==
    [][\A b \in Batches :
           /\ AtOneDescriptor(batches[b], b)
           /\ batches'[b].i # batches[b].i =>
                  /\ batches'[b].i = batches[b].i + 1
                  /\ batches[b].pc = (IF batches[b].i = 0 THEN "unused" ELSE "pausing")
                  /\ Len(batches[b].results) = batches[b].i]_vars

\* the second descriptor of a batch is being saved, the first has its result
C17_Witness ==
    \E b \in WithAssets :
        /\ batches[b].pc = "saving"
        /\ batches[b].i = 2
        /\ Len(batches[b].results) = 1
        /\ \E n \in DOMAIN downloads : downloads[n].owner = <<b, 1>>

\* the save call made for the asset of handle k has returned a download id,
\* and it was given that handle
SaveReturned(k) ==
    \E n \in DOMAIN downloads :
        /\ downloads[n].owner = blobs[k].owner
        /\ downloads[n].options.url = [scheme |-> "blob", id |-> k]

\* C18: a content handle is released only after the save call for the asset
\* it was created for has returned, at most once, and the release is of that
\* asset's own handle: no handle is released or due for release before its
\* save returned, no two assets share a handle, and a release changes nothing
\* but the one handle whose timer fired.
C18_ReleaseAfterOwnSave ==
    [][/\ \A k \in DOMAIN blobs :
              /\ blobs[k].timer # "none" => SaveReturned(k)
              /\ blobs[k].revoked <=> blobs[k].timer = "fired"
              /\ \A j \in DOMAIN blobs : blobs[j].owner = blobs[k].owner => j = k
              /\ blobs[k].revoked => blobs'[k] = blobs[k]
              /\ (blobs'[k].revoked /\ ~blobs[k].revoked) =>
                     /\ blobs[k].timer = "pending"
                     /\ \A j \in DOMAIN blobs : j # k => blobs'[j] = blobs[j]
                     /\ UNCHANGED <<batches, downloads>>
       /\ \A k \in DOMAIN blobs' : blobs'[k].timer # "none" => SaveReturned(k)']_vars

\* a handle is released while a later asset of its batch is being processed
C18_Witness ==
    \E k \in DOMAIN blobs :
        /\ blobs[k].revoked
        /\ batches[blobs[k].owner[1]].pc \in {"fetching", "saving"}
        /\ batches[blobs[k].owner[1]].i > blobs[k].owner[2]

\* the texts jsBeautify.beautify may be given for a descriptor: its content,
\* or the body of a successful fetch of its URL
FormatInputs(asset) ==
    IF HasContent(asset) THEN {asset.content}
    ELSE {o.text : o \in {f \in FetchOutcomes : f.kind = "response" /\ f.ok}}

\* what a format call returns when it observes the given availability: the
\* engine's output or, if the engine raised, the input; else the heuristic's
FormatOutputs(code, available) ==
    IF available THEN {js_beautify(code), code} ELSE {basicBeautify(code)}

\* batch b formats the text of its current descriptor in this step
FormatsInStep(b) ==
    /\ batches'[b].pc = "saving"
    /\ batches'[b] # batches[b]
    /\ batches'[b].content.js = "string"
    /\ batches'[b].url.scheme \in {"blob", "data"}
    /\ IsScript(batches'[b].request.assets[batches'[b].i])
    /\ BeautifyScripts(batches'[b].request)

\* C19: the engine's availability changes at most once, from unavailable to
\* available, never back; each format call takes its path from the
\* availability at the moment of the call and completes on it; the transition
\* changes no batch, handle or save, so a call made before it keeps its
\* heuristic result.
C19_AvailabilityAtCallTime ==
    [][/\ jsBeautifyLoaded => jsBeautifyLoaded'
       /\ ~engineLoading => jsBeautifyLoaded' = jsBeautifyLoaded
       /\ jsBeautifyLoaded' # jsBeautifyLoaded =>
              UNCHANGED <<batches, blobs, downloads>>
       /\ \A b \in Batches :
              FormatsInStep(b) =>
                  \E code \in FormatInputs(batches'[b].request.assets[batches'[b].i]) :
                      /\ batches'[b].content.text
                             \in FormatOutputs(code, jsBeautifyLoaded)
                      /\ batches'[b].content.text =
                             (IF batches'[b].url.scheme = "blob"
                              THEN blobs'[batches'[b].url.id].content
                              ELSE batches'[b].url.text)
       /\ \A k \in DOMAIN blobs : blobs'[k].content = blobs[k].content]_vars

\* the engine became available while a text formatted by the heuristic was
\* being saved
C19_Witness ==
    /\ jsBeautifyLoaded
    /\ \E b \in WithAssets :
           /\ batches[b].pc = "saving"
           /\ batches[b].request.assets[batches[b].i] = InlineAsset
           /\ BeautifyScripts(batches[b].request)
           /\ batches[b].content = String(basicBeautify(InlineAsset.content))
           /\ HandleText(batches[b].url) = basicBeautify(InlineAsset.content)
           /\ basicBeautify(InlineAsset.content) # js_beautify(InlineAsset.content)

-----------------------------------------------------------------------------
(* Inline script names, checked under ScanSpec *)

\* C20: in a scan with includeInline set, the inline-script descriptors are
\* named inline_script_1.js, inline_script_2.js, ... in document order: the
\* n-th one emitted carries the number n, also on pages that have script
\* elements without src whose body is blank.
C20_InlineNamesAreSequential ==
    (scanReplies # <<>> /\ scanReplies[1].success /\ IncludeInline) =>
        LET inline == SelectSeq(scanReplies[1].assets,
                                LAMBDA a : a.type = "inline-js")
        IN \A n \in DOMAIN inline :
               inline[n].filename = InlineScriptPrefix \o Decimal(n) \o DotJs

-----------------------------------------------------------------------------
(* The heuristic formatter on its own output, checked under FormatSpec *)

\* C21: on the heuristic path (engine unavailable) format is idempotent on
\* its own output: for every text over statement characters, ';', ',', '{',
\* '}', spaces and newlines, formatting what format returned gives it back
\* unchanged.
C21_HeuristicIsIdempotent ==
    (beautifyCall # <<>> /\ ~beautifyCall[1].available
     /\ beautifyCall[1].code.js = "string") =>
        LET formatted == beautifyCall[1].returned.text
        IN /\ formatted = basicBeautify(beautifyCall[1].code.text)
           /\ beautify(formatted, FALSE, FALSE) = formatted

\* a block on one line was broken up and indented, and is stable from then on
C21_Witness ==
    /\ beautifyCall # <<>>
    /\ ~beautifyCall[1].available
    /\ beautifyCall[1].code = String(<<"{", "a", "}">>)
    /\ beautifyCall[1].returned =
           String(<<"{", "\n", " ", " ", "a", "\n", "}", "\n">>)
    /\ beautify(beautifyCall[1].returned.text, FALSE, FALSE)
           = beautifyCall[1].returned.text

=============================================================================
